---- MODULE Spec2Model ----
(***************************************************************************)
(* A model of plant_gen.py, the L-system plant generator: the derivation   *)
(* of the axiom into a list of Operators (Token.execute, Rule.execute)     *)
(* and the interpretation of that list on a stack of turtle States         *)
(* (Operator.execute), as driven by Generator.execute.                     *)
(*                                                                         *)
(* Text is modelled as sequences of one-character strings, so that the     *)
(* tokenizer and the argument substitution work on characters as the code  *)
(* does.  A Python None is the empty sequence <<>> and a Python int n is   *)
(* the one-element sequence <<n>>.  A probability p is the integer 100*p   *)
(* and a value of random.random() is the integer 100*random.random().      *)
(***************************************************************************)
EXTENDS Integers, Sequences, FiniteSets, TLC

(***************************************************************************)
(* Bounds of the model.                                                    *)
(***************************************************************************)
\* the largest MAXOPS value a run is started with
MaxOperations == 10
\* the largest MAXDEPTH value a run is started with
MaxDepth == 5
\* the largest value of MIN_DERIVES a run is started with
MaxMinDerives == 2
\* the largest value of random_max (RANDOM) a run is started with
MaxRandom == 2

(***************************************************************************)
(* Python values.                                                          *)
(***************************************************************************)
None == <<>>

Some(n) == <<n>>

IsNone(v) == Len(v) = 0

Val(v) == v[1]

(***************************************************************************)
(* Characters and strings.                                                 *)
(***************************************************************************)
Digits == <<"0", "1", "2", "3", "4", "5", "6", "7", "8", "9">>

\* str.isdigit() of one character
IsDigit(c) == \E i \in 1..10 : Digits[i] = c

\* int(c) of one digit character
DigitVal(c) == (CHOOSE i \in 1..10 : Digits[i] = c) - 1

RECURSIVE NatToStr(_)
NatToStr(n) ==
    IF n < 10 THEN <<Digits[n + 1]>>
    ELSE NatToStr(n \div 10) \o <<Digits[(n % 10) + 1]>>

\* str(n) of a Python int
IntToStr(n) == IF n < 0 THEN <<"-">> \o NatToStr(-n) ELSE NatToStr(n)

\* str(v) of an int or None
PyStr(v) == IF IsNone(v) THEN <<"N", "o", "n", "e">> ELSE IntToStr(Val(v))

\* s.replace(old, new) for a one-character old
RECURSIVE Replace(_, _, _)
Replace(s, old, new) ==
    IF s = <<>> THEN <<>>
    ELSE (IF Head(s) = old THEN new ELSE <<Head(s)>>) \o Replace(Tail(s), old, new)

operator_tokens == {"[", "]", "&", "^", "/", "\\", "!", "+", "-", "F", "L", "K"}

(***************************************************************************)
(* eval() of an argument expression after substitution.  Modelled on the   *)
(* expressions the grammars use: integer literals joined by + and -, with  *)
(* signs allowed to stack ("60+-5").  The text "None" evaluates to None.   *)
(* Any other text (e.g. "None+1") raises an exception: the result is       *)
(* RaiseVal.                                                              *)
(***************************************************************************)
RaiseVal == <<0, 0>>

Raised(v) == Len(v) = 2

RECURSIVE EvalLoop(_, _, _, _, _)
EvalLoop(s, acc, sign, num, hasNum) ==
    IF s = <<>> THEN (IF hasNum THEN Some(acc + sign * num) ELSE RaiseVal)
    ELSE LET c == Head(s) IN
         IF IsDigit(c)
           THEN EvalLoop(Tail(s), acc, sign, num * 10 + DigitVal(c), TRUE)
         ELSE IF c \in {"+", "-"}
           THEN LET sg == IF c = "-" THEN -1 ELSE 1 IN
                IF hasNum THEN EvalLoop(Tail(s), acc + sign * num, sg, 0, FALSE)
                ELSE EvalLoop(Tail(s), acc, sign * sg, 0, FALSE)
         ELSE RaiseVal

Eval(s) ==
    IF s = <<"N", "o", "n", "e">> THEN None ELSE EvalLoop(s, 0, 1, 0, FALSE)

(***************************************************************************)
(* Rule.execute, lines 245-258: re.sub(r'\(([^)]+)\)', replace_exec, ...)   *)
(* over the grammar.  rands[k] is int(rand) of the k-th call of            *)
(* replace_exec.  The result is [raised, text].                            *)
(***************************************************************************)
\* the least j >= i with s[j] = ")", or 0
RECURSIVE FindClose(_, _)
FindClose(s, i) ==
    IF i > Len(s) THEN 0
    ELSE IF s[i] = ")" THEN i
    ELSE FindClose(s, i + 1)

\* the spans the regular expression matches from position i on
RECURSIVE Matches(_, _)
Matches(s, i) ==
    IF i > Len(s) THEN <<>>
    ELSE IF s[i] = "(" /\ FindClose(s, i + 1) > i + 1
      THEN <<(<<i, FindClose(s, i + 1)>>)>> \o Matches(s, FindClose(s, i + 1) + 1)
    ELSE Matches(s, i + 1)

\* the value replace_exec evaluates for one match
replace_exec(group, arg_name, arg, rand) ==
    Eval(Replace(Replace(group, arg_name, PyStr(arg)), "r", IntToStr(rand)))

RECURSIVE SubLoop(_, _, _, _, _, _, _)
SubLoop(s, i, arg_name, arg, rands, k, out) ==
    IF i > Len(s) THEN [raised |-> FALSE, text |-> out]
    ELSE IF s[i] = "(" /\ FindClose(s, i + 1) > i + 1
      THEN LET j == FindClose(s, i + 1)
               v == replace_exec(SubSeq(s, i + 1, j - 1), arg_name, arg, rands[k])
           IN  IF Raised(v) THEN [raised |-> TRUE, text |-> <<>>]
               ELSE SubLoop(s, j + 1, arg_name, arg, rands, k + 1,
                            out \o <<"(">> \o PyStr(v) \o <<")">>)
    ELSE SubLoop(s, i + 1, arg_name, arg, rands, k, Append(out, s[i]))

\* exec_grammar of Rule.execute
ExecGrammar(rule, arg, rands) ==
    IF IsNone(rule.arg_name) THEN [raised |-> FALSE, text |-> rule.grammar]
    ELSE SubLoop(rule.grammar, 1, Val(rule.arg_name), arg, rands, 1, <<>>)

\* the values int(rand) can take, lines 246-249
RandInts(rmax) == IF rmax >= 1 THEN (-(rmax - 1))..(rmax - 1) ELSE {0}

Contains(s, c) == \E i \in 1..Len(s) : s[i] = c

\* the random integers one execution of the rule draws, one for each match;
\* a draw whose expression has no `r` changes nothing and is taken as 0
RandDraws(rule, rmax) ==
    IF IsNone(rule.arg_name) THEN {<<>>}
    ELSE LET m == Matches(rule.grammar, 1) IN
         {f \in [1..Len(m) -> RandInts(rmax)] :
             \A k \in 1..Len(m) :
                ~Contains(SubSeq(rule.grammar, m[k][1], m[k][2]), "r") => f[k] = 0}

(***************************************************************************)
(* Rule.execute, lines 258-277: the body tokenizer.                        *)
(***************************************************************************)
Token(rule, param) == [rule |-> rule, param |-> param]

\* exec_grammar.replace("(","").replace(")","").replace(" ","")
GrammarTokens(text) == SelectSeq(text, LAMBDA c : c \notin {"(", ")", " "})

GRAMMAR_IDENTIFIER == 1

GRAMMAR_ARGUMENT == 2

RECURSIVE TokLoop(_, _, _, _, _)
TokLoop(s, parser, tokens, token_rule, token_argument) ==
    IF s = <<>> THEN Append(tokens, Token(token_rule, token_argument))
    ELSE LET token == Head(s) IN
         IF parser = GRAMMAR_IDENTIFIER \/ ~IsDigit(token)
           THEN TokLoop(Tail(s), GRAMMAR_ARGUMENT,
                        IF token_rule # "" THEN Append(tokens, Token(token_rule, token_argument))
                        ELSE tokens,
                        token, None)
         ELSE TokLoop(Tail(s), parser, tokens, token_rule,
                      Some((IF IsNone(token_argument) THEN 0 ELSE Val(token_argument)) * 10
                           + DigitVal(token)))

Tokenize(text) == TokLoop(GrammarTokens(text), GRAMMAR_IDENTIFIER, <<>>, "", None)

(***************************************************************************)
(* Python's str and number functions that Rule.__init__ uses.              *)
(***************************************************************************)
\* s.split(c)
RECURSIVE SplitLoop(_, _, _, _)
SplitLoop(s, c, cur, out) ==
    IF s = <<>> THEN Append(out, cur)
    ELSE IF Head(s) = c THEN SplitLoop(Tail(s), c, <<>>, Append(out, cur))
    ELSE SplitLoop(Tail(s), c, Append(cur, Head(s)), out)

Split(s, c) == SplitLoop(s, c, <<>>, <<>>)

\* s.find(c): the index, from 0, of the first c, or -1
RECURSIVE FindLoop(_, _, _)
FindLoop(s, c, i) ==
    IF i > Len(s) THEN -1
    ELSE IF s[i] = c THEN i - 1
    ELSE FindLoop(s, c, i + 1)

Find(s, c) == FindLoop(s, c, 1)

\* s.strip()
RECURSIVE Strip(_)
Strip(s) ==
    IF s = <<>> THEN s
    ELSE IF Head(s) \in {" ", "\t"} THEN Strip(Tail(s))
    ELSE IF s[Len(s)] \in {" ", "\t"} THEN Strip(SubSeq(s, 1, Len(s) - 1))
    ELSE s

AllDigits(s) == \A i \in 1..Len(s) : IsDigit(s[i])

RECURSIVE DigitsVal(_, _)
DigitsVal(s, acc) ==
    IF s = <<>> THEN acc ELSE DigitsVal(Tail(s), acc * 10 + DigitVal(Head(s)))

\* int(s): an optional sign and digits, or ValueError (RaiseVal)
PyInt(s) ==
    LET signed == s # <<>> /\ Head(s) \in {"+", "-"}
        d == IF signed THEN Tail(s) ELSE s
    IN  IF d = <<>> \/ ~AllDigits(d) THEN RaiseVal
        ELSE Some((IF signed /\ Head(s) = "-" THEN -1 ELSE 1) * DigitsVal(d, 0))

\* float(s) of a decimal literal, as the integer 100 * float(s) cut to
\* hundredths, or ValueError (RaiseVal)
PyFloat(s) ==
    LET parts == Split(s, ".")
        whole == parts[1]
        frac == IF Len(parts) = 2 THEN parts[2] ELSE <<>>
        two == SubSeq(frac \o <<"0", "0">>, 1, 2)
    IN  IF Len(parts) > 2 \/ ~AllDigits(whole) \/ ~AllDigits(frac) \/ whole \o frac = <<>>
          THEN RaiseVal
        ELSE Some(DigitsVal(whole, 0) * 100 + DigitsVal(two, 0))

(***************************************************************************)
(* Rule.__init__, lines 154-220: a line of the L-system is split at the    *)
(* spaces and its tokens are read by a parser that ":" and "->" move on.   *)
(* The result is [raised, rule]: `raised` names the exception that left    *)
(* Rule.__init__, "" if none.  Identifiers and argument names are of one   *)
(* character in the texts of this model.                                   *)
(***************************************************************************)
ARG_MAX == 99999999

Rule(identifier, arg_name, arg_min, arg_max, probability, grammar) ==
    [identifier |-> identifier, arg_name |-> arg_name, arg_min |-> arg_min,
     arg_max |-> arg_max, probability |-> probability, grammar |-> grammar]

\* a line `w : <grammar>`
Axiom(grammar) == Rule(None, None, None, None, 100, grammar)

PARSER_RULE == 1

PARSER_IDENTIFIER == 2

PARSER_ARGREQ == 3

PARSER_GRAMMAR == 4

\* a name of one character as the character; no token has a longer name
Name(s) == IF Len(s) = 1 THEN s[1] ELSE ""

Parsed(raised, rule) == [raised |-> raised, rule |-> rule]

\* (mutant) the bounds are set one too wide on each side
BoundedWide(rule, lo, hi) == [rule EXCEPT !.arg_min = Some(lo - 1), !.arg_max = Some(hi + 1)]

\* self.arg_min = lo, self.arg_max = hi
Bounded(rule, lo, hi) == [rule EXCEPT !.arg_min = Some(lo), !.arg_max = Some(hi)]

\* lines 204-218, after the probability: the bounds of the token
ParseBounds(token, rule) ==
    IF token = <<"*">> THEN Parsed("", Bounded(rule, 0, ARG_MAX))
    ELSE IF Find(token, "=") > 0
      THEN LET v == PyInt(Split(token, "=")[2])
           IN  IF Raised(v) THEN Parsed("ValueError", rule)
               ELSE Parsed("", Bounded(rule, Val(v), Val(v)))
    ELSE LET token_subtokens ==
                 Split(Replace(Replace(token, "<", <<" ">>), ">", <<" ">>), " ")
         IN  IF Len(token_subtokens) = 3
               THEN LET lo == PyInt(token_subtokens[1])
                        hi == PyInt(token_subtokens[3])
                    IN  IF Raised(lo) \/ Raised(hi) THEN Parsed("ValueError", rule)
                        ELSE Parsed("", Bounded(rule, Val(lo) + 1, Val(hi) - 1))
             ELSE IF Find(token, "<") >= 0
               THEN LET hi == PyInt(token_subtokens[2])
                    IN  IF Raised(hi) THEN Parsed("ValueError", rule)
                        ELSE Parsed("", Bounded(rule, 0, Val(hi) - 1))
             ELSE IF Len(token_subtokens) < 2 THEN Parsed("IndexError", rule)
             ELSE LET lo == PyInt(token_subtokens[2])
                  IN  IF Raised(lo) THEN Parsed("ValueError", rule)
                      ELSE Parsed("", Bounded(rule, Val(lo) + 1, ARG_MAX))

\* lines 191-218: PARSER_ARGREQ
ParseArgReq(token, rule) ==
    LET parts == Split(token, ":") IN
    IF Len(parts) = 2
      THEN LET probability == PyFloat(parts[1])
           IN  IF Raised(probability) THEN Parsed("ValueError", rule)
               ELSE ParseBounds(parts[2], [rule EXCEPT !.probability = Val(probability)])
      ELSE ParseBounds(parts[1], rule)

\* lines 185-190: PARSER_IDENTIFIER
ParseIdentifier(token, rule) ==
    LET token_subtokens == Split(Replace(Replace(token, "(", <<" ">>), ")", <<>>), " ")
    IN  IF Len(token_subtokens) < 2 THEN Parsed("IndexError", rule)
        ELSE Parsed("", [rule EXCEPT !.identifier = Some(Name(token_subtokens[1])),
                                     !.arg_name = Some(Name(token_subtokens[2]))])

\* lines 169-220: the loop over the tokens of the line
RECURSIVE ParseLoop(_, _, _)
ParseLoop(tokens, parser, rule) ==
    IF tokens = <<>> THEN Parsed("", rule)
    ELSE LET token == Head(tokens) IN
         IF token = <<>> THEN ParseLoop(Tail(tokens), parser, rule)
         ELSE IF token = <<":">>
           THEN ParseLoop(Tail(tokens),
                          IF parser = PARSER_RULE THEN PARSER_IDENTIFIER
                          ELSE IF parser = PARSER_IDENTIFIER THEN PARSER_ARGREQ
                          ELSE parser,
                          rule)
         ELSE IF token = <<"-", ">">> THEN ParseLoop(Tail(tokens), PARSER_GRAMMAR, rule)
         ELSE IF parser = PARSER_RULE
           THEN ParseLoop(Tail(tokens),
                          IF token = <<"w">> THEN PARSER_GRAMMAR ELSE parser, rule)
         ELSE IF parser = PARSER_IDENTIFIER
           THEN LET r == ParseIdentifier(token, rule)
                IN  IF r.raised # "" THEN r ELSE ParseLoop(Tail(tokens), parser, r.rule)
         ELSE IF parser = PARSER_ARGREQ
           THEN LET r == ParseArgReq(token, rule)
                IN  IF r.raised # "" THEN r ELSE ParseLoop(Tail(tokens), parser, r.rule)
         ELSE ParseLoop(Tail(tokens), parser, [rule EXCEPT !.grammar = token])

\* Rule(description)
RuleInit(description) ==
    ParseLoop(Split(description, " "), PARSER_RULE, Axiom(<<>>))

\* lines 637-642 over the lines of a text: the axiom and the rules read, up
\* to the end or to the first line that raises
RECURSIVE Grammar(_, _, _)
Grammar(lines, ax, rs) ==
    IF lines = <<>> THEN [axiom |-> ax, rules |-> rs]
    ELSE LET r == RuleInit(Strip(Head(lines))) IN
         IF r.raised # "" THEN [axiom |-> ax, rules |-> rs]
         ELSE IF IsNone(r.rule.identifier) THEN Grammar(Tail(lines), r.rule, rs)
         ELSE Grammar(Tail(lines), ax, Append(rs, r.rule))

(***************************************************************************)
(* The texts (gen_text, lines 551-563) a run is started with, each a       *)
(* sequence of lines, and the axiom and rules read from them.              *)
(***************************************************************************)
\* w : A(7)
\* p1 : A(t) : t=7 -> F[+L][-L]F
TextExample ==
    <<(<<"w", " ", ":", " ", "A", "(", "7", ")">>),
      (<<"p", "1", " ", ":", " ", "A", "(", "t", ")", " ", ":", " ", "t", "=", "7", " ",
         "-", ">", " ", "F", "[", "+", "L", "]", "[", "-", "L", "]", "F">>)>>

GrammarExample == Grammar(TextExample, Axiom(<<>>), <<>>)

\* w : A
\* p1 : A(t) : * -> AA
TextLoop ==
    <<(<<"w", " ", ":", " ", "A">>),
      (<<"p", "1", " ", ":", " ", "A", "(", "t", ")", " ", ":", " ", "*", " ", "-", ">",
         " ", "A", "A">>)>>

GrammarLoop == Grammar(TextLoop, Axiom(<<>>), <<>>)

\* w : A(1)K
\* p1 : A(t) : 0.5:t<7 -> F
\* p2 : A(t) : * -> L
TextOverlap ==
    <<(<<"w", " ", ":", " ", "A", "(", "1", ")", "K">>),
      (<<"p", "1", " ", ":", " ", "A", "(", "t", ")", " ", ":", " ", "0", ".", "5", ":",
         "t", "<", "7", " ", "-", ">", " ", "F">>),
      (<<"p", "2", " ", ":", " ", "A", "(", "t", ")", " ", ":", " ", "*", " ", "-", ">",
         " ", "L">>)>>

GrammarOverlap == Grammar(TextOverlap, Axiom(<<>>), <<>>)

\* w : A(5)
\* p1 : A(t) : 0.9:t<7 -> [FA(t+1)]L
TextBranch ==
    <<(<<"w", " ", ":", " ", "A", "(", "5", ")">>),
      (<<"p", "1", " ", ":", " ", "A", "(", "t", ")", " ", ":", " ", "0", ".", "9", ":",
         "t", "<", "7", " ", "-", ">", " ", "[", "F", "A", "(", "t", "+", "1", ")", "]", "L">>)>>

GrammarBranch == Grammar(TextBranch, Axiom(<<>>), <<>>)

\* w : ZL(0)I(3)F(2)
\* p3 : I(t) : t>5 -> FFI(t-1)
\* p4 : L(t) : t=0 -> L(t+1)
TextStray ==
    <<(<<"w", " ", ":", " ", "Z", "L", "(", "0", ")", "I", "(", "3", ")", "F", "(", "2", ")">>),
      (<<"p", "3", " ", ":", " ", "I", "(", "t", ")", " ", ":", " ", "t", ">", "5", " ",
         "-", ">", " ", "F", "F", "I", "(", "t", "-", "1", ")">>),
      (<<"p", "4", " ", ":", " ", "L", "(", "t", ")", " ", ":", " ", "t", "=", "0", " ",
         "-", ">", " ", "L", "(", "t", "+", "1", ")">>)>>

GrammarStray == Grammar(TextStray, Axiom(<<>>), <<>>)

\* w : [F]]F+
TextUnbalanced ==
    <<(<<"w", " ", ":", " ", "[", "F", "]", "]", "F", "+">>)>>

GrammarUnbalanced == Grammar(TextUnbalanced, Axiom(<<>>), <<>>)

\*  w :    A(7)
\*     p1 : A(t) : t=7 -> I(1)[&(90+r)L(0)]A(6)K(0)
\*     p2 : A(t) : 0.9:t<7 -> FA(t+1)
\*     p3 : I(t) : t>0 -> FI(t-1)
\*     p4 : L(t) : t=0 -> L(t+1)
\*     p5 : K(t) : t=0 -> K(t+1)
TextLychnis ==
    <<(<<" ", "w", " ", ":", " ", " ", " ", " ", "A", "(", "7", ")">>),
      (<<"\t", "p", "1", " ", ":", " ", "A", "(", "t", ")", " ", ":", " ", "t", "=", "7",
         " ", "-", ">", " ", "I", "(", "1", ")", "[", "&", "(", "9", "0", "+", "r", ")",
         "L", "(", "0", ")", "]", "A", "(", "6", ")", "K", "(", "0", ")">>),
      (<<"\t", "p", "2", " ", ":", " ", "A", "(", "t", ")", " ", ":", " ", "0", ".", "9",
         ":", "t", "<", "7", " ", "-", ">", " ", "F", "A", "(", "t", "+", "1", ")">>),
      (<<"\t", "p", "3", " ", ":", " ", "I", "(", "t", ")", " ", ":", " ", "t", ">", "0",
         " ", "-", ">", " ", "F", "I", "(", "t", "-", "1", ")">>),
      (<<"\t", "p", "4", " ", ":", " ", "L", "(", "t", ")", " ", ":", " ", "t", "=", "0",
         " ", "-", ">", " ", "L", "(", "t", "+", "1", ")">>),
      (<<"\t", "p", "5", " ", ":", " ", "K", "(", "t", ")", " ", ":", " ", "t", "=", "0",
         " ", "-", ">", " ", "K", "(", "t", "+", "1", ")", " ">>)>>

GrammarLychnis == Grammar(TextLychnis, Axiom(<<>>), <<>>)

\* w : A
\* p1 : A(t) : * -> FA(t+1)
TextNoArg ==
    <<(<<"w", " ", ":", " ", "A">>),
      (<<"p", "1", " ", ":", " ", "A", "(", "t", ")", " ", ":", " ", "*", " ", "-", ">",
         " ", "F", "A", "(", "t", "+", "1", ")">>)>>

GrammarNoArg == Grammar(TextNoArg, Axiom(<<>>), <<>>)

\* w : !(2)F[!F]
TextRadius ==
    <<(<<"w", " ", ":", " ", "!", "(", "2", ")", "F", "[", "!", "F", "]">>)>>

GrammarRadius == Grammar(TextRadius, Axiom(<<>>), <<>>)

\* w : +-F
TextTurns ==
    <<(<<"w", " ", ":", " ", "+", "-", "F">>)>>

GrammarTurns == Grammar(TextTurns, Axiom(<<>>), <<>>)

\* w : A(2)A(1)
\* p1 : A(t) : 1<t<8 -> F
\* p2 : A(t) : 1<t<2 -> L
\* p3 : A(t) : t<0 -> K
TextBounds ==
    <<(<<"w", " ", ":", " ", "A", "(", "2", ")", "A", "(", "1", ")">>),
      (<<"p", "1", " ", ":", " ", "A", "(", "t", ")", " ", ":", " ", "1", "<", "t", "<",
         "8", " ", "-", ">", " ", "F">>),
      (<<"p", "2", " ", ":", " ", "A", "(", "t", ")", " ", ":", " ", "1", "<", "t", "<",
         "2", " ", "-", ">", " ", "L">>),
      (<<"p", "3", " ", ":", " ", "A", "(", "t", ")", " ", ":", " ", "t", "<", "0", " ",
         "-", ">", " ", "K">>)>>

\* w : A(6)
\* p1 : A(t) : 5<t -> F
TextGreater ==
    <<(<<"w", " ", ":", " ", "A", "(", "6", ")">>),
      (<<"p", "1", " ", ":", " ", "A", "(", "t", ")", " ", ":", " ", "5", "<", "t", " ",
         "-", ">", " ", "F">>)>>

\* w : A(3)
\* p1 : A(t) : t>=3 -> F
\* p2 : A(t) : 5>t>1 -> L
\* p3 : A(t) : t<=5 -> K
TextMalformed ==
    <<(<<"w", " ", ":", " ", "A", "(", "3", ")">>),
      (<<"p", "1", " ", ":", " ", "A", "(", "t", ")", " ", ":", " ", "t", ">", "=", "3",
         " ", "-", ">", " ", "F">>),
      (<<"p", "2", " ", ":", " ", "A", "(", "t", ")", " ", ":", " ", "5", ">", "t", ">",
         "1", " ", "-", ">", " ", "L">>),
      (<<"p", "3", " ", ":", " ", "A", "(", "t", ")", " ", ":", " ", "t", "<", "=", "5",
         " ", "-", ">", " ", "K">>)>>

\* w : A(3)
\* p1 : A(t) : t -> F
TextBare ==
    <<(<<"w", " ", ":", " ", "A", "(", "3", ")">>),
      (<<"p", "1", " ", ":", " ", "A", "(", "t", ")", " ", ":", " ", "t", " ", "-", ">",
         " ", "F">>)>>

\* w : A(3)
\* p1 : A(t) : 0.5:t<x -> F
TextLiteral ==
    <<(<<"w", " ", ":", " ", "A", "(", "3", ")">>),
      (<<"p", "1", " ", ":", " ", "A", "(", "t", ")", " ", ":", " ", "0", ".", "5", ":",
         "t", "<", "x", " ", "-", ">", " ", "F">>)>>

\* w : B(0)
\* p1 : B(t) : * -> FL(t-1)
TextNegative ==
    <<(<<"w", " ", ":", " ", "B", "(", "0", ")">>),
      (<<"p", "1", " ", ":", " ", "B", "(", "t", ")", " ", ":", " ", "*", " ", "-", ">",
         " ", "F", "L", "(", "t", "-", "1", ")">>)>>

\* w : A
\* p1 : A(t) : t=7 -> F
TextExact ==
    <<(<<"w", " ", ":", " ", "A">>),
      (<<"p", "1", " ", ":", " ", "A", "(", "t", ")", " ", ":", " ", "t", "=", "7", " ",
         "-", ">", " ", "F">>)>>

Texts ==
    {TextExample, TextExact, TextRadius, TextTurns, TextNoArg, TextLoop, TextOverlap, TextBranch,
     TextStray, TextUnbalanced, TextLychnis, TextBounds, TextGreater, TextMalformed,
     TextBare, TextLiteral, TextNegative}

\* the values 100 * random.random() is drawn from
RandomUnit == {0, 50, 95}

\* the values of the G line: STEP, RADIUS, ANGLE, RANDOM
\* (lengths are counted in thousandths: 5 is the default 0.005)
StepValues == {5}

RadiusValues == {5}

AngleValues == {90}

RandomValues == {MaxRandom}

(***************************************************************************)
(* The state: the module globals (lines 39-58), the call stack of          *)
(* Rule.execute and Token.execute, and the locals of Generator.execute.    *)
(***************************************************************************)
VARIABLES
    pc,              \* where Generator.execute is: idle, reset, parse, derive,
                     \* interpret, done, error
    MAX_OPERATIONS, MAX_DEPTH, MIN_DERIVES,
    grow_step, grow_radius, grow_angle, random_max,
    derivations, operations,
    generator_desc,  \* the lines of the text not yet parsed
    rules, axiom,
    stack,           \* the frames of Rule.execute and Token.execute, the innermost last
    operators, ip,   \* the list axiom.execute returned and the next one to execute
    states,          \* the State stack, states[1] is the code's states[0]
    splines,         \* curve.splines: each a sequence of points
    leaves, flowers, \* the objects parented to plant
    error            \* the exception that ended the run, "" if none

config == <<MAX_OPERATIONS, MAX_DEPTH, MIN_DERIVES, grow_step, grow_radius, grow_angle,
            random_max>>

counters == <<derivations, operations>>

table == <<rules, axiom>>

turtle == <<states, splines, leaves, flowers>>

vars == <<pc, config, counters, generator_desc, table, stack, operators, ip, turtle, error>>

\* a spline as curve.splines.new(type='POLY') returns it: one point, nothing set
NewPoint == [co |-> None, radius |-> None]

NewSpline == <<NewPoint>>

\* State.__init__
NewState(spline) ==
    [position |-> <<0, 0, 0, 1>>, orientation |-> <<90, 0, 0>>, spline |-> spline]

\* The module as loaded, lines 39-58.  MIN_DERIVES is set in the source only
\* (1000 there); the model starts with a small value of it, so that runs of
\* a few operations pass the floor.
Init ==
    /\ pc = "idle"
    /\ MAX_OPERATIONS = 20000
    /\ MAX_DEPTH = 300
    /\ MIN_DERIVES \in 0..MaxMinDerives
    /\ grow_step = 5
    /\ grow_radius = 5
    /\ grow_angle = 18
    /\ random_max = 20
    /\ derivations = 0
    /\ operations = 0
    /\ generator_desc = <<>>
    /\ rules = <<>>
    /\ axiom = Axiom(<<>>)
    /\ stack = <<>>
    /\ operators = <<>>
    /\ ip = 1
    /\ states = <<>>
    /\ splines = <<>>
    /\ leaves = <<>>
    /\ flowers = <<>>
    /\ error = ""

(***************************************************************************)
(* Frames.  A Rule frame is one call of Rule.execute: `tokens` is the      *)
(* tokenized body and i the index of the next token of the loop of line    *)
(* 280.  A Token frame is one call of Token.execute that has reached the   *)
(* loop of line 122: `token` is self and i the index of the next rule.     *)
(* `operators` is the list the call returns.  `path` is not program state: *)
(* it records where the call sits in the derivation (token index, rule     *)
(* index, token index, ...), and `src` of an Operator is the path of the   *)
(* token that emitted it.                                                  *)
(***************************************************************************)
Operator(op, arg, src) == [op |-> op, arg |-> arg, src |-> src]

RuleFrame(arg, depth, tokens, path) ==
    [kind |-> "Rule", token |-> Token("", arg), depth |-> depth, tokens |-> tokens,
     i |-> 1, operators |-> <<>>, path |-> path]

TokenFrame(token, depth, path) ==
    [kind |-> "Token", token |-> token, depth |-> depth, tokens |-> <<>>,
     i |-> 1, operators |-> <<>>, path |-> path]

Top == stack[Len(stack)]

Pop == SubSeq(stack, 1, Len(stack) - 1)

\* (mutant) the returned list is put in front
ReturnedInFront(frame, ops) ==
    [frame EXCEPT !.operators = ops \o frame.operators, !.i = frame.i + 1]

\* a call takes the list its inner call returned, lines 131-132 and 282-283,
\* and goes to its next iteration
Returned(frame, ops) ==
    [frame EXCEPT !.operators = frame.operators \o ops, !.i = frame.i + 1]

InRule == pc = "derive" /\ stack # <<>> /\ Top.kind = "Rule"

InToken == pc = "derive" /\ stack # <<>> /\ Top.kind = "Token"

\* (mutant) L and K are missing from operator_tokens
isOperatorNoDraw(token) == token.rule \in operator_tokens \ {"L", "K"}

\* Token.isOperator
isOperator(token) == token.rule \in operator_tokens

\* (mutant) the operation cap tested with > for >=
LimitedOpsLate(depth) == operations > MAX_OPERATIONS \/ depth > MAX_DEPTH

\* (mutant) the depth is not tested
LimitedOpsOnly(depth) == operations >= MAX_OPERATIONS

\* (mutant) the depth cap tested one level late
LimitedDepthLate(depth) == operations >= MAX_OPERATIONS \/ depth > MAX_DEPTH + 1

\* lines 108 and 112: the two caps
Limited(depth) == operations >= MAX_OPERATIONS \/ depth > MAX_DEPTH

\* (mutant) the identifier is not compared
RuleMatchesAnyIdentifier(rule, token) ==
    IF IsNone(token.param) THEN TRUE
    ELSE Val(token.param) <= Val(rule.arg_max) /\ Val(token.param) >= Val(rule.arg_min)

\* line 123
RuleMatches(rule, token) ==
    /\ Val(rule.identifier) = token.rule
    /\ IF IsNone(token.param) THEN TRUE
       ELSE Val(token.param) <= Val(rule.arg_max) /\ Val(token.param) >= Val(rule.arg_min)

\* (mutant) the floor of forced derivations is not looked at
TrialPassesNoFloor(draw, rule) == draw <= rule.probability

\* line 124
TrialPasses(draw, rule) == draw <= rule.probability \/ derivations < MIN_DERIVES

\* lines 126-127
Derive(d) == IF d < MIN_DERIVES THEN d + 1 ELSE d

(***************************************************************************)
(* Generator.execute, lines 469-478: "Reset everything".  The operator can *)
(* be invoked again after a run; the settings of the last G line stay.     *)
(***************************************************************************)
GenReset ==
    /\ pc \in {"idle", "done", "error"}
    /\ pc' = "reset"
    /\ states' = <<NewState(1)>>
    /\ splines' = <<NewSpline>>
    /\ leaves' = <<>>
    /\ flowers' = <<>>
    /\ generator_desc' = <<>>
    /\ rules' = <<>>
    /\ axiom' = Axiom(<<>>)
    /\ operations' = 0
    /\ derivations' = 0
    /\ stack' = <<>>
    /\ operators' = <<>>
    /\ ip' = 1
    /\ error' = ""
    /\ UNCHANGED config

(***************************************************************************)
(* Generator.execute, lines 551-634: the text is split into lines and the  *)
(* values of the G line are set.                                           *)
(***************************************************************************)
GenExecute ==
    /\ pc = "reset"
    /\ generator_desc' \in Texts
    /\ MAX_OPERATIONS' \in 0..MaxOperations
    /\ MAX_DEPTH' \in 0..MaxDepth
    /\ grow_step' \in StepValues
    /\ grow_radius' \in RadiusValues
    /\ grow_angle' \in AngleValues
    /\ random_max' \in RandomValues
    /\ pc' = "parse"
    /\ UNCHANGED <<MIN_DERIVES, counters, table, stack, operators, ip, turtle, error>>

(***************************************************************************)
(* Generator.execute, lines 637-642: one line is parsed into a Rule, which *)
(* is the axiom if it has no identifier.  An exception of Rule.__init__    *)
(* leaves Generator.execute.                                               *)
(***************************************************************************)
ParseLine ==
    /\ pc = "parse"
    /\ generator_desc # <<>>
    /\ LET r == RuleInit(Strip(Head(generator_desc))) IN
       IF r.raised # ""
         THEN /\ pc' = "error"
              /\ error' = r.raised
              /\ UNCHANGED <<generator_desc, table>>
         ELSE /\ generator_desc' = Tail(generator_desc)
              /\ axiom' = IF IsNone(r.rule.identifier) THEN r.rule ELSE axiom
              /\ rules' = IF IsNone(r.rule.identifier) THEN rules ELSE Append(rules, r.rule)
              /\ UNCHANGED <<pc, error>>
    /\ UNCHANGED <<config, counters, stack, operators, ip, turtle>>

\* line 649: self.axiom.execute(0, 0)
AxiomExecute ==
    /\ pc = "parse"
    /\ generator_desc = <<>>
    /\ stack' = <<RuleFrame(Some(0), 0, Tokenize(axiom.grammar), <<>>)>>
    /\ pc' = "derive"
    /\ UNCHANGED <<config, counters, generator_desc, table, operators, ip, turtle, error>>

(***************************************************************************)
(* Rule.execute, lines 280-283, calling Token.execute(depth+1) on the next *)
(* token, up to where Token.execute returns or enters its loop over rules. *)
(***************************************************************************)
\* lines 108-115: a cap is reached, the token derives to nothing
TokenLimit ==
    /\ InRule
    /\ Top.i <= Len(Top.tokens)
    /\ Limited(Top.depth + 1)
    /\ stack' = [stack EXCEPT ![Len(stack)] = Returned(Top, <<>>)]
    /\ UNCHANGED <<pc, config, counters, generator_desc, table, operators, ip, turtle, error>>

\* lines 117-119
TokenOperator ==
    /\ InRule
    /\ Top.i <= Len(Top.tokens)
    /\ ~Limited(Top.depth + 1)
    /\ isOperator(Top.tokens[Top.i])
    /\ LET token == Top.tokens[Top.i] IN
       stack' = [stack EXCEPT ![Len(stack)] =
                    Returned(Top, <<Operator(token.rule, token.param,
                                             Append(Top.path, Top.i))>>)]
    /\ operations' = operations + 1
    /\ UNCHANGED <<pc, config, derivations, generator_desc, table, operators, ip, turtle, error>>

\* lines 120-122: the token is looked up in the rules
TokenLookup ==
    /\ InRule
    /\ Top.i <= Len(Top.tokens)
    /\ ~Limited(Top.depth + 1)
    /\ ~isOperator(Top.tokens[Top.i])
    /\ stack' = Append(stack, TokenFrame(Top.tokens[Top.i], Top.depth + 1,
                                         Append(Top.path, Top.i)))
    /\ UNCHANGED <<pc, config, counters, generator_desc, table, operators, ip, turtle, error>>

(***************************************************************************)
(* Token.execute, lines 122-132: one iteration of the loop over rules.     *)
(***************************************************************************)
\* line 123 is false
RuleSkip ==
    /\ InToken
    /\ Top.i <= Len(rules)
    /\ ~RuleMatches(rules[Top.i], Top.token)
    /\ stack' = [stack EXCEPT ![Len(stack)].i = Top.i + 1]
    /\ UNCHANGED <<pc, config, counters, generator_desc, table, operators, ip, turtle, error>>

\* line 124 is false
RuleNotTaken ==
    /\ InToken
    /\ Top.i <= Len(rules)
    /\ RuleMatches(rules[Top.i], Top.token)
    /\ \E draw \in RandomUnit : ~TrialPasses(draw, rules[Top.i])
    /\ stack' = [stack EXCEPT ![Len(stack)].i = Top.i + 1]
    /\ UNCHANGED <<pc, config, counters, generator_desc, table, operators, ip, turtle, error>>

\* lines 126-130 and Rule.execute up to line 277
RuleExecute ==
    /\ InToken
    /\ Top.i <= Len(rules)
    /\ RuleMatches(rules[Top.i], Top.token)
    /\ \E draw \in RandomUnit : TrialPasses(draw, rules[Top.i])
    /\ derivations' = Derive(derivations)
    /\ \E rands \in RandDraws(rules[Top.i], random_max) :
          LET g == ExecGrammar(rules[Top.i], Top.token.param, rands) IN
          IF g.raised
            THEN /\ pc' = "error"
                 /\ error' = "TypeError"
                 /\ UNCHANGED stack
            ELSE /\ stack' = Append(stack, RuleFrame(Top.token.param, Top.depth + 1,
                                                     Tokenize(g.text), Append(Top.path, Top.i)))
                 /\ UNCHANGED <<pc, error>>
    /\ UNCHANGED <<config, operations, generator_desc, table, operators, ip, turtle>>

\* line 134: the loop over rules is over
TokenReturn ==
    /\ InToken
    /\ Top.i > Len(rules)
    /\ stack' = [Pop EXCEPT ![Len(stack) - 1] = Returned(stack[Len(stack) - 1], Top.operators)]
    /\ UNCHANGED <<pc, config, counters, generator_desc, table, operators, ip, turtle, error>>

\* line 285: the loop over tokens is over; the axiom returns to Generator.execute
RuleReturn ==
    /\ InRule
    /\ Top.i > Len(Top.tokens)
    /\ IF Len(stack) = 1
         THEN /\ stack' = <<>>
              /\ operators' = Top.operators
              /\ ip' = 1
              /\ pc' = "interpret"
         ELSE /\ stack' = [Pop EXCEPT ![Len(stack) - 1] =
                              Returned(stack[Len(stack) - 1], Top.operators)]
              /\ UNCHANGED <<pc, operators, ip>>
    /\ UNCHANGED <<config, counters, generator_desc, table, turtle, error>>

(***************************************************************************)
(* Operator.execute, lines 303-440.  The turtle works on states[0], which  *)
(* is states[1] here.  Angles are multiples of 90 degrees in the grammars  *)
(* of this model, where cos and sin are integers.                          *)
(***************************************************************************)
CosDeg(d) ==
    CASE d % 360 = 0 -> 1
      [] d % 360 = 90 -> 0
      [] d % 360 = 180 -> -1
      [] d % 360 = 270 -> 0

SinDeg(d) == CosDeg(d + 270)

TurnOps == {"+", "-", "&", "^", "/", "\\"}

\* the index of the orientation component the operator turns
Axis(op) ==
    CASE op \in {"+", "-"} -> 3
      [] op \in {"&", "^"} -> 1
      [] op \in {"/", "\\"} -> 2

\* `angle` of lines 326-328 and the like
Angle(op, arg) ==
    IF op \in {"+", "&", "/"}
      THEN (IF IsNone(arg) THEN grow_angle ELSE Val(arg))
      ELSE (IF IsNone(arg) THEN -grow_angle ELSE -Val(arg))

\* lines 329-331: orientation[k] = orientation[k] + angle % 360
Turned(state, op, arg) ==
    [state EXCEPT !.orientation[Axis(op)] = @ + (Angle(op, arg) % 360)]

\* `step` of lines 374-376, in thousandths
Step(arg) == IF IsNone(arg) THEN grow_step ELSE Val(arg) * 1000

\* lines 377-382
Moved(state, arg) ==
    [state EXCEPT !.position =
        <<@[1] + Step(arg) * CosDeg(state.orientation[1]),
          @[2] + Step(arg) * SinDeg(state.orientation[2]),
          @[3] + Step(arg) * CosDeg(state.orientation[3]),
          @[4]>>]

Point(co, radius) == [co |-> co, radius |-> Some(radius)]

\* (mutant) the new state is left as State() made it
PushedFresh(sts, spline) == <<NewState(spline)>> \o sts

\* lines 310-313: the new state on top of the stack
Pushed(sts, spline) ==
    <<[position |-> sts[1].position, orientation |-> sts[1].orientation,
       spline |-> spline]>> \o sts

\* (mutant) del states[0:2]
PoppedTwo(sts) == SubSeq(sts, 3, Len(sts))

\* line 323: del states[0]
Popped(sts) == Tail(sts)

\* the operator Generator.execute runs next, line 650
Cur == operators[ip]

Running == pc = "interpret" /\ ip <= Len(operators)

Raise(e) ==
    /\ pc' = "error"
    /\ error' = e
    /\ UNCHANGED ip

Step1 ==
    /\ ip' = ip + 1
    /\ UNCHANGED <<pc, error>>

\* lines 308-319
OpPush ==
    /\ Running
    /\ Cur.op = "["
    /\ splines' = Append(splines, IF states = <<>> THEN NewSpline
                                  ELSE <<Point(states[1].position, grow_radius)>>)
    /\ IF states = <<>>
         THEN Raise("IndexError") /\ UNCHANGED states
         ELSE Step1 /\ states' = Pushed(states, Len(splines) + 1)
    /\ UNCHANGED <<config, counters, generator_desc, table, stack, operators, leaves, flowers>>

\* lines 320-323
OpPop ==
    /\ Running
    /\ Cur.op = "]"
    /\ IF states = <<>>
         THEN Raise("IndexError") /\ UNCHANGED states
         ELSE Step1 /\ states' = Popped(states)
    /\ UNCHANGED <<config, counters, generator_desc, table, stack, operators, splines, leaves, flowers>>

\* lines 324-371
OpTurn ==
    /\ Running
    /\ Cur.op \in TurnOps
    /\ IF states = <<>>
         THEN Raise("IndexError") /\ UNCHANGED states
         ELSE Step1 /\ states' = [states EXCEPT ![1] = Turned(@, Cur.op, Cur.arg)]
    /\ UNCHANGED <<config, counters, generator_desc, table, stack, operators, splines, leaves, flowers>>

\* (mutant) the point is added to the first spline of the curve
OpGrowOnRoot ==
    /\ Running
    /\ Cur.op = "F"
    /\ IF states = <<>>
         THEN Raise("IndexError") /\ UNCHANGED <<states, splines>>
         ELSE /\ Step1
              /\ states' = [states EXCEPT ![1] = Moved(@, Cur.arg)]
              /\ splines' = [splines EXCEPT ![1] =
                                Append(@, Point(Moved(states[1], Cur.arg).position,
                                                grow_radius))]
    /\ UNCHANGED <<config, counters, generator_desc, table, stack, operators, leaves, flowers>>

\* lines 372-385
OpGrow ==
    /\ Running
    /\ Cur.op = "F"
    /\ IF states = <<>>
         THEN Raise("IndexError") /\ UNCHANGED <<states, splines>>
         ELSE /\ Step1
              /\ states' = [states EXCEPT ![1] = Moved(@, Cur.arg)]
              /\ splines' = [splines EXCEPT ![states[1].spline] =
                                Append(@, Point(Moved(states[1], Cur.arg).position,
                                                grow_radius))]
    /\ UNCHANGED <<config, counters, generator_desc, table, stack, operators, leaves, flowers>>

\* lines 390-435: a leaf or a flower at the position (DRAW_LEAVES and
\* DRAW_FLOWERS are True; the random raise of a leaf's corners is left out)
OpDraw ==
    /\ Running
    /\ Cur.op \in {"L", "K"}
    /\ IF states = <<>>
         THEN Raise("IndexError") /\ UNCHANGED <<leaves, flowers>>
         ELSE /\ Step1
              /\ leaves' = IF Cur.op = "L" THEN Append(leaves, states[1].position)
                           ELSE leaves
              /\ flowers' = IF Cur.op = "K" THEN Append(flowers, states[1].position)
                            ELSE flowers
    /\ UNCHANGED <<config, counters, generator_desc, table, stack, operators, states, splines>>

\* (mutant) a `!` without an argument does nothing
OpRadiusSkips ==
    /\ Running
    /\ Cur.op = "!"
    /\ Step1
    /\ UNCHANGED <<config, counters, generator_desc, table, stack, operators, turtle>>

\* lines 436-438: radius = int(self.arg)
OpRadius ==
    /\ Running
    /\ Cur.op = "!"
    /\ IF IsNone(Cur.arg) THEN Raise("TypeError") ELSE Step1
    /\ UNCHANGED <<config, counters, generator_desc, table, stack, operators, turtle>>

\* lines 653-654: every operator is executed
Finish ==
    /\ pc = "interpret"
    /\ ip > Len(operators)
    /\ pc' = "done"
    /\ UNCHANGED <<config, counters, generator_desc, table, stack, operators, ip, turtle, error>>

Next ==
    \/ GenReset
    \/ GenExecute
    \/ ParseLine
    \/ AxiomExecute
    \/ TokenLimit
    \/ TokenOperator
    \/ TokenLookup
    \/ RuleSkip
    \/ RuleNotTaken
    \/ RuleExecute
    \/ TokenReturn
    \/ RuleReturn
    \/ OpPush
    \/ OpPop
    \/ OpTurn
    \/ OpGrow
    \/ OpDraw
    \/ OpRadius
    \/ Finish

Spec == Init /\ [][Next]_vars

(***************************************************************************)
(* Two runs.  states, rules, operations and derivations (and curve) are    *)
(* globals of the module, lines 46-58, so a second Generator.execute whose *)
(* steps fall between those of the run above works on the same ones.  The  *)
(* second run is modelled by the first thing it does to them: the reset    *)
(* of lines 470-478 when it starts.  Its later steps and its own locals    *)
(* (the lines, the axiom, the lists of operators) are not modelled.        *)
(***************************************************************************)
InProgress == pc \in {"parse", "derive", "interpret"}

\* lines 470-478 of the second run
OtherReset ==
    /\ InProgress
    /\ states' = <<NewState(1)>>
    /\ splines' = <<NewSpline>>
    /\ rules' = <<>>
    /\ operations' = 0
    /\ derivations' = 0
    /\ UNCHANGED <<pc, config, generator_desc, axiom, stack, operators, ip, leaves,
                   flowers, error>>

NextTwoRuns ==
    \/ Next
    \/ OtherReset

SpecTwoRuns == Init /\ [][NextTwoRuns]_vars

(***************************************************************************)
(* Properties.                                                             *)
(***************************************************************************)
\* every Operator a call on the stack holds, and those the axiom returned
RECURSIVE FrameOps(_)
FrameOps(k) == IF k = 0 THEN <<>> ELSE FrameOps(k - 1) \o stack[k].operators

Emitted == operators \o FrameOps(Len(stack))

\* the token of the top Rule frame that Token.execute is called on next
HasNextToken == InRule /\ Top.i <= Len(Top.tokens)

NextToken == Top.tokens[Top.i]

\* C1: the number of operations emitted, counted by `operations` and held in
\* the lists the calls return and in the list the axiom returns, never
\* exceeds MAX_OPERATIONS.
C1_OperationsCapped ==
    /\ operations <= MAX_OPERATIONS
    /\ Len(Emitted) <= MAX_OPERATIONS
    /\ pc \in {"derive", "interpret", "done"} => Len(Emitted) = operations

\* a run of the example grammar that MAX_OPERATIONS = 3 cut short
C1_Witness ==
    /\ pc = "done"
    /\ axiom = GrammarExample.axiom
    /\ MAX_OPERATIONS = 3
    /\ operations = 3
    /\ Len(operators) = 3

\* the loop iterations each call on the stack st has left, the outermost
\* first: the tokens of a Rule.execute, the rules of a Token.execute, not
\* counting the iteration in which an inner call is running
Pending(st) ==
    [k \in 1..Len(st) |->
        (IF st[k].kind = "Rule" THEN Len(st[k].tokens) ELSE Len(rules)) - st[k].i
        + (IF k = Len(st) THEN 1 ELSE 0)]

\* a is before b in the lexicographic order (a proper prefix is before)
LexLess(a, b) ==
    \E k \in 1..Len(b) :
       /\ k - 1 <= Len(a)
       /\ \A j \in 1..(k - 1) : a[j] = b[j]
       /\ k <= Len(a) => a[k] < b[k]

\* C2 (a token at a cap): a token met when `operations` has reached
\* MAX_OPERATIONS or at a depth above MAX_DEPTH derives to the empty list in
\* that step, without an error, and the run goes on.
C2_CapStep ==
    (HasNextToken /\ (operations >= MAX_OPERATIONS \/ Top.depth + 1 > MAX_DEPTH))
       => /\ pc' = "derive"
          /\ error' = ""
          /\ operations' = operations
          /\ derivations' = derivations
          /\ Len(stack') = Len(stack)
          /\ stack'[Len(stack)].operators = Top.operators
          /\ stack'[Len(stack)].i = Top.i + 1

\* C2 (every derivation ends): the calls nest at most MAX_DEPTH + 2 deep, and
\* every step of a derivation takes the loop iterations left to a smaller
\* value of a well-founded order, or ends the derivation: the axiom returns
\* its list, or eval raises on a token without an argument.
C2_Decreases ==
    (pc = "derive")
       => /\ pc' \in {"derive", "interpret", "error"}
          /\ Len(stack) <= MAX_DEPTH + 2
          /\ \A k \in 1..Len(stack) : Pending(stack)[k] >= 0
          /\ pc' = "derive" => LexLess(Pending(stack'), Pending(stack))
          /\ pc' = "error" => (InToken /\ IsNone(Top.token.param))
          /\ pc' = "interpret" => (stack' = <<>> /\ operators' = stack[1].operators)

\* C2: for every grammar the derivation of the axiom ends and returns the
\* operations emitted so far; reaching a cap makes a token derive to the
\* empty list, never raises an error.
C2_Terminates == [][C2_CapStep /\ C2_Decreases]_vars

\* the self-recursive grammar, which emits nothing, has run to its end
C2_Witness ==
    /\ pc = "done"
    /\ axiom = GrammarLoop.axiom
    /\ MAX_DEPTH = MaxDepth
    /\ derivations = MIN_DERIVES
    /\ operators = <<>>

\* C3: no token is derived at a depth above MAX_DEPTH: no Token.execute on
\* the stack has looked up rules, no rule was executed for a token, and no
\* Operator was emitted, at such a depth; the rule executions nested below
\* the axiom are at most MAX_DEPTH.
NestedRules == Cardinality({k \in 2..Len(stack) : stack[k].kind = "Rule"})

C3_DepthCapped ==
    /\ \A k \in 1..Len(stack) :
          /\ stack[k].depth = Len(stack[k].path)
          /\ stack[k].kind = "Token" => stack[k].depth <= MAX_DEPTH
          /\ (stack[k].kind = "Rule" /\ k > 1) => stack[k].depth - 1 <= MAX_DEPTH
    /\ \A n \in 1..Len(Emitted) : Len(Emitted[n].src) <= MAX_DEPTH
    /\ NestedRules <= MAX_DEPTH

\* a rule body met at a depth above MAX_DEPTH, below the operation cap
C3_Witness ==
    /\ HasNextToken
    /\ Len(stack) > 1
    /\ Top.depth + 1 > MAX_DEPTH
    /\ operations < MAX_OPERATIONS
    /\ NestedRules = 2

\* the rule has the token's identifier and its bounds admit the argument (a
\* token without an argument is admitted, as on line 123)
Admits(rule, token) ==
    /\ Val(rule.identifier) = token.rule
    /\ IF IsNone(token.param) THEN TRUE
       ELSE Val(rule.arg_min) <= Val(token.param) /\ Val(token.param) <= Val(rule.arg_max)

\* the twelve terminal operators
TerminalOperators == {"[", "]", "&", "^", "/", "\\", "!", "+", "-", "F", "L", "K"}

\* C4: a rule is executed for a token only if no rule declared before it has
\* the token's identifier and admits its argument (the first match alone is
\* selected).
C4_FirstMatchOnly ==
    \A k \in 2..Len(stack) :
       stack[k].kind = "Rule"
          => \A j \in 1..(stack[k - 1].i - 1) : ~Admits(rules[j], stack[k - 1].token)

\* the rule the loop of Token.execute is at is selected for the token
Selected == InToken /\ Top.i <= Len(rules) /\ Admits(rules[Top.i], Top.token)

\* C5 (a step): below the floor a selected rule is executed and the counter
\* goes up by one; a selected rule is skipped only at the floor, where the
\* counter stays; no other step changes the counter.
C5_Step ==
    /\ (Selected /\ derivations < MIN_DERIVES)
          => /\ Len(stack') = Len(stack) + 1 \/ pc' = "error"
             /\ derivations' = derivations + 1
    /\ (Selected /\ Len(stack') = Len(stack) /\ pc' = "derive")
          => /\ derivations >= MIN_DERIVES
             /\ rules[Top.i].probability < 100
    /\ (pc = "derive" /\ derivations >= MIN_DERIVES) => derivations' = derivations
    /\ (pc = "derive" /\ ~Selected) => derivations' = derivations

\* C5: while `derivations` is below MIN_DERIVES every selected rule executes,
\* whatever its probability and the draw; a rule is skipped for its
\* probability only once `derivations` has reached MIN_DERIVES; the counter
\* goes up by one for each execution below the floor and never exceeds it.
C5_ForcedDerivations == [](derivations <= MIN_DERIVES) /\ [][C5_Step]_vars

\* a rule of probability below 1 is executing, below the floor
C5_Witness ==
    /\ InRule
    /\ Len(stack) >= 3
    /\ rules[stack[Len(stack) - 1].i].probability < 100
    /\ derivations >= 1
    /\ derivations < MIN_DERIVES

\* no terminal operator, and no rule that admits the token
Unmatched(token) ==
    /\ token.rule \notin TerminalOperators
    /\ \A j \in 1..Len(rules) : ~Admits(rules[j], token)

\* C6 (a step): Token.execute of an unmatched token executes no rule, raises
\* nothing, leaves both counters, and returns nothing to its caller.
C6_Step ==
    (InToken /\ Unmatched(Top.token))
       => /\ pc' = "derive"
          /\ error' = ""
          /\ operations' = operations
          /\ derivations' = derivations
          /\ Top.operators = <<>>
          /\ Len(stack') <= Len(stack)
          /\ Len(stack') < Len(stack)
                => /\ stack'[Len(stack')].operators = stack[Len(stack) - 1].operators
                   /\ stack'[Len(stack')].i = stack[Len(stack) - 1].i + 1

\* C6: a token that is no terminal operator and that no rule admits derives to
\* the empty list without an error and leaves `operations` and `derivations`.
C6_UnmatchedDropped == [][C6_Step]_vars

\* I(3) has been looked up in rules that hold a rule for I(t), t>5, and nothing
\* matched
C6_Witness ==
    /\ InToken
    /\ Top.token = Token("I", Some(3))
    /\ \E j \in 1..Len(rules) : Val(rules[j].identifier) = "I"
    /\ Top.i > Len(rules)
    /\ Unmatched(Top.token)

\* C7 (a step): below both caps a token named by a terminal operator returns
\* one Operator of its name and argument and adds one to `operations`.
C7_Step ==
    (/\ HasNextToken
     /\ operations < MAX_OPERATIONS
     /\ Top.depth + 1 <= MAX_DEPTH
     /\ NextToken.rule \in TerminalOperators)
       => /\ pc' = "derive"
          /\ operations' = operations + 1
          /\ derivations' = derivations
          /\ Len(stack') = Len(stack)
          /\ stack'[Len(stack)].i = Top.i + 1
          /\ LET ops == stack'[Len(stack)].operators
                 n == Len(Top.operators)
             IN  /\ Len(ops) = n + 1
                 /\ SubSeq(ops, 1, n) = Top.operators
                 /\ ops[n + 1].op = NextToken.rule
                 /\ ops[n + 1].arg = NextToken.param

\* C7: a terminal operator derives to exactly one operation of its kind and
\* argument and counts once, and no rule is ever looked up for it, also when
\* the rules hold one with its identifier.
C7_OperatorEmitted ==
    /\ [](\A k \in 1..Len(stack) :
             stack[k].kind = "Token" => stack[k].token.rule \notin TerminalOperators)
    /\ [][C7_Step]_vars

\* L(0) has just been emitted while the rules hold p4 : L(t) : t=0 -> L(t+1)
C7_Witness ==
    /\ InRule
    /\ Top.i > 1
    /\ Top.tokens[Top.i - 1] = Token("L", Some(0))
    /\ \E j \in 1..Len(rules) : Admits(rules[j], Token("L", Some(0)))
    /\ Top.operators # <<>>
    /\ Top.operators[Len(Top.operators)].op = "L"
    /\ Top.operators[Len(Top.operators)].arg = Some(0)

\* the tokens of one body that p and q descend from differ, p's being first
BodyBefore(p, q) ==
    \E n \in 1..Len(p) :
       /\ n % 2 = 1
       /\ n <= Len(q)
       /\ \A j \in 1..(n - 1) : p[j] = q[j]
       /\ p[n] < q[n]

\* ops keeps the order of the bodies
InBodyOrder(ops) ==
    \A x, y \in 1..Len(ops) : BodyBefore(ops[x].src, ops[y].src) => x < y

Kinds(ops) == [n \in 1..Len(ops) |-> ops[n].op]

\* C8: in every list a call returns, and in the list the axiom returns, the
\* operations derived from a token come before those derived from a token
\* later in the same body; the example grammar A(t) : t=7 -> F[+L][-L]F with
\* the axiom A(7) derives to F [ + L ] [ - L ] F.
C8_BodyOrder ==
    /\ InBodyOrder(operators)
    /\ \A k \in 1..Len(stack) : InBodyOrder(stack[k].operators)
    /\ (/\ pc \in {"interpret", "done"}
        /\ axiom = GrammarExample.axiom
        /\ rules = GrammarExample.rules
        /\ MAX_OPERATIONS >= 10
        /\ MAX_DEPTH >= 3)
          => /\ Kinds(operators) = <<"F", "[", "+", "L", "]", "[", "-", "L", "]", "F">>
             /\ \A n \in 1..Len(operators) : IsNone(operators[n].arg)

\* the example grammar has been derived in full
C8_Witness ==
    /\ pc = "interpret"
    /\ ip = 1
    /\ axiom = GrammarExample.axiom
    /\ Len(operators) = 10

\* C9: while an operator is left to execute the State stack is not empty (a
\* pop of the only state fails and removes nothing).
C9_RootNeverPopped ==
    (pc = "interpret" /\ ip <= Len(operators)) => Len(states) >= 1

\* every prefix of s has at least as many [ as ], and s as many
RECURSIVE BalancedFrom(_, _, _)
BalancedFrom(s, i, open) ==
    IF i > Len(s) THEN open = 0
    ELSE IF s[i] = "[" THEN BalancedFrom(s, i + 1, open + 1)
    ELSE IF s[i] = "]" THEN open > 0 /\ BalancedFrom(s, i + 1, open - 1)
    ELSE BalancedFrom(s, i + 1, open)

BalancedGrammar ==
    /\ BalancedFrom(axiom.grammar, 1, 0)
    /\ \A j \in 1..Len(rules) : BalancedFrom(rules[j].grammar, 1, 0)

\* the number of operators named op among the first n executed
Count(op, n) == Cardinality({m \in 1..n : operators[m].op = op})

\* C10: with a bracket-balanced axiom and rule bodies, whatever was drawn and
\* wherever a cap cut the derivation, the State stack holds the root state and
\* one state for each [ not yet closed after every operator, and no operator
\* fails on the stack.  (generator_desc = <<>>: every line was parsed.)
C10_BalancedNeverPopsRoot ==
    (BalancedGrammar /\ generator_desc = <<>> /\ pc \in {"interpret", "done", "error"})
       => /\ Len(states) >= 1
          /\ Len(states) = 1 + Count("[", ip - 1) - Count("]", ip - 1)
          /\ error # "IndexError"

\* a balanced grammar cut by MAX_OPERATIONS inside a bracket, after a pop
C10_Witness ==
    /\ pc = "done"
    /\ BalancedGrammar
    /\ axiom = GrammarBranch.axiom
    /\ operations = MAX_OPERATIONS
    /\ Count("]", Len(operators)) >= 1
    /\ Count("[", Len(operators)) > Count("]", Len(operators))
    /\ Len(states) > 1
\* the argument of the last `!` among the first n operators, None if there is none
RECURSIVE LastRadius(_)
LastRadius(n) ==
    IF n = 0 THEN None
    ELSE IF operators[n].op = "!" THEN operators[n].arg
    ELSE LastRadius(n - 1)

\* C11 (a step): the point a grow adds, and the first point of the spline a
\* push starts, has the radius of the last `!` executed before it (lengths
\* are in thousandths).
C11_Step ==
    (/\ Running
     /\ Cur.op \in {"F", "["}
     /\ states # <<>>
     /\ ~IsNone(LastRadius(ip - 1)))
       => LET sp == IF Cur.op = "F" THEN states[1].spline ELSE Len(splines) + 1
              pts == splines'[sp]
          IN  pts[Len(pts)].radius = Some(1000 * Val(LastRadius(ip - 1)))

\* C11: after a `!` with argument r every point a later grow adds, and the
\* first point of every spline a later push starts, has radius r.
C11_RadiusApplied == [][C11_Step]_vars

\* the axis (1 = x, 2 = y, 3 = z) and the sign of each turn
TurnOf(op) ==
    CASE op = "+" -> <<3, 1>>
      [] op = "-" -> <<3, -1>>
      [] op = "&" -> <<1, 1>>
      [] op = "^" -> <<1, -1>>
      [] op = "/" -> <<2, 1>>
      [] op = "\\" -> <<2, -1>>

\* C12 (a step): `!` without an argument raises and the run executes nothing
\* more; any other operator without an argument, with a state to work on,
\* is executed without an error, a turn by grow_angle (up to whole turns) and
\* a grow by grow_step.
C12_Step ==
    /\ (Running /\ Cur.op = "!" /\ IsNone(Cur.arg))
          => /\ pc' = "error"
             /\ error' # ""
             /\ ip' = ip
             /\ turtle' = turtle
    /\ pc = "error" => (pc' = "reset" /\ error' = "")
    /\ (Running /\ Cur.op # "!" /\ IsNone(Cur.arg) /\ states # <<>>)
          => /\ pc' = "interpret"
             /\ error' = ""
             /\ ip' = ip + 1
             /\ Cur.op \in {"+", "-", "&", "^", "/", "\\"}
                   => LET k == TurnOf(Cur.op)[1]
                          sign == TurnOf(Cur.op)[2]
                      IN  /\ (states'[1].orientation[k]
                                - states[1].orientation[k] - sign * grow_angle) % 360 = 0
                          /\ \A a \in (1..3) \ {k} :
                                states'[1].orientation[a] = states[1].orientation[a]
                          /\ states'[1].position = states[1].position
             /\ Cur.op = "F"
                   => LET p == states[1].position
                          o == states[1].orientation
                      IN  /\ states'[1].position =
                                <<p[1] + grow_step * CosDeg(o[1]),
                                  p[2] + grow_step * SinDeg(o[2]),
                                  p[3] + grow_step * CosDeg(o[3]), p[4]>>
                          /\ states'[1].orientation = o

\* C12: `!` without an argument fails with an error that ends the run; every
\* other operator without an argument is executed without an error, the turns
\* with the angle grow_angle and a grow with the step grow_step.
C12_MissingArgument == [][C12_Step]_vars

\* w : !(2)F[!F] has failed at its second `!`, after the F and the [ without
\* an argument were executed
C12_Witness ==
    /\ pc = "error"
    /\ error = "TypeError"
    /\ ip = 4
    /\ operators[ip].op = "!"
    /\ IsNone(operators[ip].arg)
    /\ operators[2].op = "F"
    /\ IsNone(operators[2].arg)
    /\ Len(splines[1]) = 2
    /\ Len(states) = 2

\* C13: every component of the orientation of every state is in [0, 360).
C13_OrientationReduced ==
    \A k \in 1..Len(states) :
       \A a \in 1..3 : states[k].orientation[a] \in 0..359
\* the number of [ not yet closed after the first m operators
Level(m) == Count("[", m) - Count("]", m)

\* operator m is not inside a pair of brackets that was closed among the
\* first n operators
Live(m, n) == \A j \in m..n : Level(j) >= Level(m)

\* the state that the turns and grows among the first n operators give when
\* those inside closed brackets, and those above bracket level lvl, are
\* left out
RECURSIVE Replay(_, _, _, _)
Replay(m, n, lvl, state) ==
    IF m > n THEN state
    ELSE IF Live(m, n) /\ Level(m) <= lvl /\ operators[m].op \in {"+", "-", "&", "^", "/", "\\"}
      THEN Replay(m + 1, n, lvl, Turned(state, operators[m].op, operators[m].arg))
    ELSE IF Live(m, n) /\ Level(m) <= lvl /\ operators[m].op = "F"
      THEN Replay(m + 1, n, lvl, Moved(state, operators[m].arg))
    ELSE Replay(m + 1, n, lvl, state)

\* C14 (the states): while no ] was met without its [, the state on top of
\* the stack is what the operators outside closed brackets give, and each
\* state below it is what it was when the [ above it was executed.
C14_Restored ==
    (/\ pc \in {"interpret", "done", "error"}
     /\ states # <<>>
     /\ \A j \in 1..(ip - 1) : Level(j) >= 0)
       => \A k \in 1..Len(states) :
             LET st == Replay(1, ip - 1, Len(states) - k, NewState(0))
             IN  /\ states[k].position = st.position
                 /\ states[k].orientation = st.orientation

\* C14 (a step): a push puts a copy of the top state's position and
\* orientation on the stack, with a new spline whose one point is at that
\* position; a pop removes the top state alone; no other operator touches a
\* state below the top.
C14_Step ==
    /\ (Running /\ Cur.op = "[" /\ states # <<>>)
          => /\ Tail(states') = states
             /\ states'[1].position = states[1].position
             /\ states'[1].orientation = states[1].orientation
             /\ states'[1].spline = Len(splines) + 1
             /\ \A k \in 1..Len(states) : states[k].spline # Len(splines) + 1
             /\ Len(splines') = Len(splines) + 1
             /\ Len(splines'[Len(splines')]) = 1
             /\ splines'[Len(splines')][1].co = states[1].position
    /\ (Running /\ Cur.op = "]" /\ states # <<>>) => states' = Tail(states)
    /\ (Running /\ Cur.op \notin {"[", "]"})
          => /\ Len(states') = Len(states)
             /\ \A k \in 2..Len(states) : states'[k] = states[k]

\* C14: a push copies the position and orientation of the top state into a
\* new top state and starts a new spline at that position; after the matching
\* pop the position and orientation are those before the push, whatever was
\* executed between them, and the states below the top are not modified.
C14_PushPopRestores == []C14_Restored /\ [][C14_Step]_vars

\* F[+L] of the example grammar has been executed: the turn inside the
\* brackets is undone
C14_Witness ==
    /\ pc = "interpret"
    /\ axiom = GrammarExample.axiom
    /\ ip = 6
    /\ operators[2].op = "["
    /\ operators[3].op = "+"
    /\ operators[5].op = "]"
    /\ Len(states) = 1
    /\ states[1].orientation = <<90, 0, 0>>
    /\ states[1].position # <<0, 0, 0, 1>>

\* s is t or t with something appended
IsPrefix(s, t) == Len(s) <= Len(t) /\ SubSeq(t, 1, Len(s)) = s

\* C15 (a step): no operator removes or changes a spline, point, leaf or
\* flower; a grow adds one point to the spline of the top state and to no
\* other; a push adds one spline; a pop leaves the splines and makes the
\* spline of the state below the one grown next.
C15_Step ==
    (pc = "interpret")
       => /\ Len(splines') >= Len(splines)
          /\ \A k \in 1..Len(splines) : IsPrefix(splines[k], splines'[k])
          /\ IsPrefix(leaves, leaves')
          /\ IsPrefix(flowers, flowers')
          /\ (Running /\ Cur.op = "F" /\ states # <<>>)
                => /\ Len(splines') = Len(splines)
                   /\ \A k \in 1..Len(splines) :
                         Len(splines'[k]) = Len(splines[k])
                                            + (IF k = states[1].spline THEN 1 ELSE 0)
                   /\ states'[1].spline = states[1].spline
          /\ (Running /\ Cur.op = "[") => Len(splines') = Len(splines) + 1
          /\ (Running /\ Cur.op \notin {"F", "["}) => splines' = splines
          /\ (Running /\ Cur.op = "]" /\ Len(states) >= 2)
                => states'[1].spline = states[2].spline

\* C15: the geometry only grows: each grow adds exactly one point, to the
\* spline of the state on top of the stack (after a pop, that of the state
\* below), each push adds exactly one spline, and nothing emitted is removed
\* or changed by any operator.
C15_AppendOnly == [][C15_Step]_vars

\* the example grammar was executed: two splines started by the pushes, and
\* the F after the pops added to the first spline
C15_Witness ==
    /\ pc = "done"
    /\ axiom = GrammarExample.axiom
    /\ Len(operators) = 10
    /\ Len(splines) = 3
    /\ Len(splines[1]) = 3
    /\ Len(splines[2]) = 1
    /\ Len(leaves) = 2
\* the tokens of a line, and a line `name : X(n) : constraint -> body`
Fields(line) == SelectSeq(Split(Strip(line), " "), LAMBDA t : t # <<>>)

IsRuleLine(line) ==
    /\ Len(Fields(line)) = 7
    /\ Fields(line)[2] = <<":">>
    /\ Fields(line)[4] = <<":">>
    /\ Fields(line)[6] = <<"-", ">">>
    /\ Len(Fields(line)[3]) = 4

ArgReqOf(line) == Fields(line)[5]

ArgNameOf(line) == Fields(line)[3][3]

\* the line Rule.__init__ is called on next
ParsingRule ==
    pc = "parse" /\ generator_desc # <<>> /\ IsRuleLine(Head(generator_desc))

\* the numbers written in the constraints, and the probabilities
Literals == 0..9

ProbTexts == {[text |-> <<"0", ".", "9">>, p |-> 90], [text |-> <<"0", ".", "5">>, p |-> 50]}

\* a constraint token read as a probability and the rest
Prefixed(c) ==
    {[p |-> 100, rest |-> c]}
       \cup {[p |-> pt.p, rest |-> SubSeq(c, Len(pt.text) + 2, Len(c))] :
                pt \in {q \in ProbTexts : IsPrefix(q.text \o <<":">>, c)}}

\* the inclusive bounds <<min, max>> that a constraint without probability
\* stands for, for the argument name n.  `above` tells how "greater than K"
\* is written: K<n if TRUE, n>K if FALSE.
Readings(c, n, above) ==
    {<<0, ARG_MAX>> : x \in {y \in {0} : c = <<"*">>}}
       \cup {<<K, K>> : K \in {k \in Literals : c = <<n, "=">> \o NatToStr(k)}}
       \cup {<<0, K - 1>> : K \in {k \in Literals : c = <<n, "<">> \o NatToStr(k)}}
       \cup {<<K + 1, ARG_MAX>> :
                K \in {k \in Literals :
                          c = IF above THEN NatToStr(k) \o <<"<", n>>
                              ELSE <<n, ">">> \o NatToStr(k)}}
       \cup {<<K[1] + 1, K[2] - 1>> :
                K \in {k \in Literals \X Literals :
                          c = NatToStr(k[1]) \o <<"<", n, "<">> \o NatToStr(k[2])}}

\* C16 (a step): a rule line whose constraint is of a recognised form is
\* parsed into a Rule with the bounds and the probability the form stands for.
C16_Step(above) ==
    ParsingRule
       => \A c \in Prefixed(ArgReqOf(Head(generator_desc))) :
             \A b \in Readings(c.rest, ArgNameOf(Head(generator_desc)), above) :
                /\ pc' = "parse"
                /\ error' = ""
                /\ Len(rules') = Len(rules) + 1
                /\ rules'[Len(rules')].arg_min = Some(b[1])
                /\ rules'[Len(rules')].arg_max = Some(b[2])
                /\ rules'[Len(rules')].probability = c.p

\* C16 (amended): parsing a constraint gives inclusive bounds: n=K gives K..K,
\* n<K gives 0..K-1, n>K gives K+1..99999999, K1<n<K2 gives K1+1..K2-1, * gives
\* 0..99999999; a prefix `prob:` sets the probability, which is 1 without it.
C16_ConstraintBounds == [][C16_Step(FALSE)]_vars

\* C16 (as stated): the same, with K<n for the form that gives min = K+1.
C16_AsStated == [][C16_Step(TRUE)]_vars

\* p2 : A(t) : 0.9:t<7 -> FA(t+1) has been parsed
C16_Witness ==
    /\ pc = "parse"
    /\ Len(generator_desc) = 3
    /\ Len(rules) = 2
    /\ rules[2].probability = 90
    /\ rules[2].arg_min = Some(0)
    /\ rules[2].arg_max = Some(6)
    /\ rules[2].arg_name = Some("t")

\* C17: every Rule with an argument name has arg_min <= arg_max.
C17_BoundsOrdered ==
    \A j \in 1..Len(rules) :
       (~IsNone(rules[j].arg_name) /\ ~IsNone(rules[j].arg_min) /\ ~IsNone(rules[j].arg_max))
          => Val(rules[j].arg_min) <= Val(rules[j].arg_max)

\* the constraints the claim names as of no recognised form: n>=K, n<=K,
\* K1>n>K2, a bare name, a bare number, and a literal that is no number
Malformed(c, n) ==
    \/ \E K \in Literals : c \in {<<n, ">", "=">> \o NatToStr(K), <<n, "<", "=">> \o NatToStr(K)}
    \/ \E K \in Literals \X Literals : c = NatToStr(K[1]) \o <<">", n, ">">> \o NatToStr(K[2])
    \/ c = <<n>>
    \/ \E K \in Literals : c = NatToStr(K)
    \/ c \in {<<n, "=", "x">>, <<n, "<", "x">>, <<n, ">", "x">>}

\* C18 (a step): Rule.__init__ on a line whose constraint is malformed raises:
\* the run ends there, no Rule is added and nothing is derived.
C18_Step ==
    (/\ ParsingRule
     /\ \E c \in Prefixed(ArgReqOf(Head(generator_desc))) :
           Malformed(c.rest, ArgNameOf(Head(generator_desc))))
       => /\ pc' = "error"
          /\ error' # ""
          /\ rules' = rules
          /\ axiom' = axiom
          /\ stack' = <<>>

\* C18: a rule line whose constraint is of none of the recognised forms, or
\* whose literal is not a number, fails with an error; no Rule is made of
\* the line and no derivation is started.
C18_MalformedRejected == [][C18_Step]_vars

\* the symbols of a body as written: each character outside parentheses is a
\* symbol, with the expression in the parentheses that follow it, if any
RECURSIVE BodySymbols(_, _, _)
BodySymbols(body, i, out) ==
    IF i > Len(body) THEN out
    ELSE IF body[i] = " " THEN BodySymbols(body, i + 1, out)
    ELSE IF body[i] = "(" /\ out # <<>> /\ FindClose(body, i + 1) > 0
      THEN BodySymbols(body, FindClose(body, i + 1) + 1,
                       [out EXCEPT ![Len(out)].expr =
                           <<SubSeq(body, i + 1, FindClose(body, i + 1) - 1)>>])
    ELSE BodySymbols(body, i + 1, Append(out, [name |-> body[i], expr |-> <<>>]))

\* C19 (a step): when a rule with an argument name is executed for a token
\* with an argument, the tokens of its body are the symbols of the body as
\* written, in their order, each with the value of its expression.
C19_Step ==
    (/\ InToken
     /\ Top.i <= Len(rules)
     /\ ~IsNone(rules[Top.i].arg_name)
     /\ ~IsNone(Top.token.param)
     /\ Len(stack') = Len(stack) + 1)
       => LET symbols == BodySymbols(rules[Top.i].grammar, 1, <<>>)
              tokens == stack'[Len(stack')].tokens
          IN  /\ Len(tokens) = Len(symbols)
              /\ \A k \in 1..Len(symbols) :
                    /\ tokens[k].rule = symbols[k].name
                    /\ IF symbols[k].expr = <<>> THEN IsNone(tokens[k].param)
                       ELSE \E rand \in RandInts(random_max) :
                               tokens[k].param
                                  = replace_exec(symbols[k].expr[1], Val(rules[Top.i].arg_name),
                                                 Top.token.param, rand)

\* C19: the body of an executed rule is instantiated symbol by symbol: as many
\* symbols, of the same names and order, as the body text has, each carrying
\* the integer its expression evaluates to, zero and negative values included.
C19_BodyInstantiated == [][C19_Step]_vars
\* the axiom and the rules of every text
Grammars == {Grammar(t, Axiom(<<>>), <<>>) : t \in Texts}

\* C20: a run works on counters, rules and states of its own: while it
\* derives and interprets, `operations` counts the operators it has emitted,
\* the rules are those of the text its axiom is from, and the states are
\* those its own operators gave, whatever another run does in between.
C20_RunsIsolated ==
    /\ pc \in {"derive", "interpret", "done"}
          => /\ operations = Len(Emitted)
             /\ [axiom |-> axiom, rules |-> rules] \in Grammars
    /\ C14_Restored
\* the rule applications, below the axiom, that the call stack[k] is inside
RulesAbove(k) == Cardinality({j \in 2..(k - 1) : stack[j].kind = "Rule"})

\* C21 (a step): below the operation cap, a token inside at most MAX_DEPTH
\* rule applications is derived: it is not cut off by the depth cap.
C21_Step ==
    (/\ HasNextToken
     /\ operations < MAX_OPERATIONS
     /\ RulesAbove(Len(stack) + 1) <= MAX_DEPTH)
       => \/ operations' = operations + 1
          \/ Len(stack') = Len(stack) + 1

\* C21: the depth goes up by one for each rule application: the tokens of
\* the axiom are derived at depth 0 and the tokens of the body of a rule
\* executed for a token at depth d at depth d + 1, so that a chain of up to
\* MAX_DEPTH rule applications below the axiom is derived.
C21_DepthByOne ==
    /\ [](\A k \in 1..Len(stack) :
             stack[k].kind = "Token" => stack[k].depth = RulesAbove(k))
    /\ [][C21_Step]_vars

\* the body of the rule uses the argument name in an expression
UsesArgument(rule) ==
    \E m \in 1..Len(Matches(rule.grammar, 1)) :
       Contains(SubSeq(rule.grammar, Matches(rule.grammar, 1)[m][1],
                       Matches(rule.grammar, 1)[m][2]), Val(rule.arg_name))

\* C22 (a step): a rule that is executed for a token without an argument
\* has no bounds to check (its constraint is *) and no expression of its
\* body uses the argument name; nothing is raised.
C22_Step ==
    (/\ InToken
     /\ Top.i <= Len(rules)
     /\ IsNone(Top.token.param)
     /\ ~IsNone(rules[Top.i].arg_name)
     /\ Len(stack') = Len(stack) + 1 \/ pc' = "error")
       => /\ rules[Top.i].arg_min = Some(0)
          /\ rules[Top.i].arg_max = Some(ARG_MAX)
          /\ ~UsesArgument(rules[Top.i])
          /\ pc' = "derive"

\* C22: a token without an argument selects a rule that declares an argument
\* only if the rule requires no check of it, and its missing argument is
\* never put into an expression of the body.
C22_ArgumentChecked == [][C22_Step]_vars
====
